---- MODULE Spec2Model ----
(***************************************************************************)
(* Ingestion and indexing pipeline of pdf-chat: the file registry          *)
(* (FilesRepository), the watchdog worker, the extraction worker, the      *)
(* local_fs indexing worker with the Redis save strategy, and the HTTP     *)
(* record endpoints, as one state machine.                                 *)
(***************************************************************************)
EXTENDS Integers, Sequences, FiniteSets, TLC

(***************************************************************************)
(* Bounds of the model.                                                    *)
(***************************************************************************)
\* number of file names that can exist
NumFiles == 1
\* longest paragraph list the extractor returns for a file
MaxPars == 2
\* number of registry records ever created (values of created_at)
MaxClock == 2
\* number of process crashes followed by a restart
MaxCrashes == 1
\* number of values of the random suffix of generate_paragraph_id
NumSuffixes == 2
\* pending filesystem events the observer holds
MaxEvents == 1
\* paragraphs per task and chunks per embedding call (configuration)
EMBEDDING_BATCH_SIZE == 1
\* embedding tasks admitted at the same time (configuration)
SEMAPHORE_LIMIT == 2
\* create_embeddings threads that outlive their 30 s timeout at one time
MaxOrphans == 1

(***************************************************************************)
(* Program constants.                                                      *)
(***************************************************************************)
\* chunkify_text(p.paragraph_text, 256, 1024)
MIN_TOKENS == 256
MAX_TOKENS == 1024
\* count_tokens: characters per token
CHARS_PER_TOKEN == 4

Files == 1..NumFiles
Suffixes == 1..NumSuffixes

(***************************************************************************)
(* Paragraph texts.  A text is the sequence of the lengths of its lines    *)
(* (str.splitlines(keepends=True)); the empty text is <<>>.                *)
(***************************************************************************)
ShortText == <<40>>
LongText == <<800, 800, 800, 800, 800, 800>>
Texts == {ShortText, LongText}

RECURSIVE SeqSum(_)
SeqSum(s) == IF s = <<>> THEN 0 ELSE Head(s) + SeqSum(Tail(s))

\* len(text)
TextLen(text) == SeqSum(text)

\* the paragraph lists an extraction can return: 1..MaxPars texts
Contents == UNION {[1..n -> Texts] : n \in 1..MaxPars}

(***************************************************************************)
(* core/processing/local_fs/process_paragraphs.py                          *)
(***************************************************************************)
count_tokens(text) ==
    (IF TextLen(text) = 0 THEN 1 ELSE TextLen(text)) \div CHARS_PER_TOKEN

RECURSIVE ChunkLoop(_, _, _, _)
ChunkLoop(lines, buff, chunks, min_tokens) ==
    IF lines = <<>>
    THEN IF buff # <<>> THEN Append(chunks, buff) ELSE chunks
    ELSE LET new_buff == Append(buff, Head(lines))
         IN  IF count_tokens(new_buff) > min_tokens
             THEN ChunkLoop(Tail(lines), <<>>, Append(chunks, buff), min_tokens)
             ELSE ChunkLoop(Tail(lines), new_buff, chunks, min_tokens)

chunkify_text(text, min_tokens, max_tokens) ==
    IF count_tokens(text) < max_tokens
    THEN <<text>>
    ELSE ChunkLoop(text, <<>>, <<>>, min_tokens)

(***************************************************************************)
(* core/processing/p_utils.py                                              *)
(***************************************************************************)
\* md5(content).hexdigest()[:length]: a digest that is a function of the
\* text alone and separates the texts of the catalogue
generate_content_hash(text) == TextLen(text)

\* f"pid-{generate_content_hash(text, length=6)}-{random_suffix}"
generate_paragraph_id(text, random_suffix) ==
    <<generate_content_hash(text), random_suffix>>

(***************************************************************************)
(* Registry: core/repositories/repo_files.py                               *)
(***************************************************************************)
ST_NEW == ""
ST_EXTRACTED == "extracted"
ST_PROCESSING == "processing"
ST_INCOMPLETE == "incomplete"
ST_COMPLETE == "complete"
ERR_EXTRACT == "Error extracting file"
ERR_JSONL == "Error: jsonl file not found on disk"

Statuses == {ST_NEW, ST_EXTRACTED, ST_PROCESSING, ST_INCOMPLETE, ST_COMPLETE,
             ERR_EXTRACT, ERR_JSONL}
IsError(s) == s \in {ERR_EXTRACT, ERR_JSONL}

\* a row of user_files; rowid is SQLite's hidden row identity, which no
\* UPDATE changes
NoRow == [present |-> FALSE, processing_status |-> ST_NEW, created_at |-> 0,
          vector_store_id |-> "", rowid |-> 0]

\* FileItem as a worker holds it in memory
FileItem(f, status, created) ==
    [file_name |-> f, processing_status |-> status, created_at |-> created,
     vector_store_id |-> ""]

\* INSERT OR REPLACE: the row of a duplicate key is overwritten
create_or_replace(reg, item) ==
    [reg EXCEPT ![item.file_name] =
        [present |-> TRUE,
         processing_status |-> item.processing_status,
         created_at |-> item.created_at,
         vector_store_id |-> item.vector_store_id,
         rowid |-> item.created_at]]

\* the return value of create_file_sync: True after the commit, False on
\* sqlite3.IntegrityError (file_name is the primary key)
create_file_ok(reg, item) == ~reg[item.file_name].present

\* the return value of update_file_sync and delete_file_sync:
\* cursor.rowcount > 0
rowcount_ok(reg, file_name) == reg[file_name].present

\* INSERT INTO user_files ...; IntegrityError on a duplicate key
create_file_sync(reg, item) ==
    IF reg[item.file_name].present
    THEN reg
    ELSE [reg EXCEPT ![item.file_name] =
             [present |-> TRUE,
              processing_status |-> item.processing_status,
              created_at |-> item.created_at,
              vector_store_id |-> item.vector_store_id,
              rowid |-> item.created_at]]

\* INSERT ... ON CONFLICT DO UPDATE: an update that creates the missing row
update_or_insert(reg, file_name, item) ==
    [reg EXCEPT ![file_name] =
        [present |-> TRUE,
         processing_status |-> item.processing_status,
         created_at |-> item.created_at,
         vector_store_id |-> item.vector_store_id,
         rowid |-> IF reg[file_name].present THEN reg[file_name].rowid
                   ELSE item.created_at]]

\* UPDATE user_files SET ... WHERE file_name = ?
update_file_sync(reg, file_name, item) ==
    IF reg[file_name].present
    THEN [reg EXCEPT ![file_name] =
             [present |-> TRUE,
              processing_status |-> item.processing_status,
              created_at |-> item.created_at,
              vector_store_id |-> item.vector_store_id,
              rowid |-> reg[file_name].rowid]]
    ELSE reg

\* DELETE FROM user_files WHERE file_name = ?
delete_file_sync(reg, file_name) == [reg EXCEPT ![file_name] = NoRow]

RECURSIVE OrderByCreatedDesc(_, _)
OrderByCreatedDesc(reg, S) ==
    IF S = {} THEN <<>>
    ELSE LET f == CHOOSE x \in S :
                     \A y \in S : reg[x].created_at > reg[y].created_at
                                  \/ (reg[x].created_at = reg[y].created_at /\ x <= y)
         IN  <<[FileItem(f, reg[f].processing_status, reg[f].created_at)
                   EXCEPT !.vector_store_id = reg[f].vector_store_id]>>
             \o OrderByCreatedDesc(reg, S \ {f})

\* SELECT ... WHERE processing_status IN (...) ORDER BY created_at DESC
get_files_by_filter_sync(reg, statuses) ==
    OrderByCreatedDesc(reg,
        {f \in Files : reg[f].present /\ reg[f].processing_status \in statuses})

(***************************************************************************)
(* core/processing/p_utils.py: the two queries of the indexing worker      *)
(***************************************************************************)
ToProcessStatuses == {ST_EXTRACTED, ST_INCOMPLETE}
get_files_to_process(reg) == get_files_by_filter_sync(reg, ToProcessStatuses)

\* a sweep that asks for the wrong status
StuckStatusesWrong == {ST_INCOMPLETE}

StuckStatuses == {ST_PROCESSING}
ResetStatus == ST_INCOMPLETE

(***************************************************************************)
(* State.                                                                  *)
(***************************************************************************)
VARIABLES
    registry,      \* user_files: file_name -> row
    disk,          \* watched directory: file_name -> "none", "meta", "nometa"
    bytes,         \* paragraph list the extractor derives from a file's bytes
    jsonl,         \* paragraph file of a file name: <<>> when missing
    sink,          \* Redis hashes: set of [file_name, id, idx]
    redis_index,   \* file names with a vector index (FT.CREATE done)
    events,        \* filesystem events the observer has not handled yet
    clock,         \* datetime.now() of the last created record
    crashes,       \* crashes so far
    main_pc,       \* "boot" before spawn_worker of the watchdog, then "running"
    ext_pc,        \* extraction worker: "poll", "extract", "persist"
    ext_queue,     \* extraction worker: process_files still to handle
    idx_pc,        \* indexing worker: position in p_local_fs_worker
    idx_queue,     \* indexing worker: files of this iteration, head = file
    tasks,         \* embedding tasks of the pass
    pass,          \* what the pass did: sink before it, lookup, embedding calls
                   \* issued and answered, save
    hist,          \* per file name: passes finished since its first pass
    orphans,       \* create_embeddings threads still running after their timeout
    threads,       \* worker name -> "alive" or "exited"
    stop_event,    \* worker name -> the worker's stop_event is set
    resp,          \* the last direct call of the repository and what it returned
    batch,         \* one embedding batch followed on its own: p_vecs_batch,
                   \* res.data, what the task returns and what is saved
    sd_pc          \* Server.shutdown: [at |-> "idle", "signal", "join" or "done",
                   \*                   i |-> index of the worker in self.workers]

vars == <<registry, disk, bytes, jsonl, sink, redis_index, events, clock, crashes,
          main_pc, ext_pc, ext_queue, idx_pc, idx_queue, tasks, pass, hist,
          orphans, threads, stop_event, resp, batch, sd_pc>>

extvars == <<ext_pc, ext_queue>>
idxvars == <<idx_pc, idx_queue, tasks, pass>>
\* core/main.py: the workers handed to Server, in the order of the list
Workers == <<"worker_watchdog", "worker_extractor", "worker_processor">>
WorkerNames == {Workers[i] : i \in 1..Len(Workers)}

W_WATCHDOG == Workers[1]
W_EXTRACTOR == Workers[2]
W_PROCESSOR == Workers[3]

NoShutdown == [at |-> "idle", i |-> 1]
NoResp == [call |-> "none", file_name |-> 0, ok |-> FALSE]

sdvars == <<threads, stop_event, sd_pc>>
auxvars == <<orphans, threads, stop_event, resp, batch, sd_pc>>

NoBatch == [pc |-> "idle", paragraph |-> <<>>, p_vecs |-> <<>>, data |-> <<>>,
            ret |-> <<>>, status |-> "processing", written |-> {}]

\* a worker that never sees its stop signal
never_set(w) == FALSE

\* stop_event.is_set() as the loop of worker w reads it
is_set(w) == stop_event[w]

NoPass == [before |-> {}, processed |-> {}, lookup |-> "none", emb_calls |-> {},
           embedded |-> {}, written |-> {}, save |-> "none"]
NoHist == [passes |-> 0, partial |-> FALSE, sink_failed |-> FALSE,
           crashed |-> FALSE]

\* nothing extracted, nothing indexed, every worker at its first statement
Boot ==
    /\ jsonl = [f \in Files |-> <<>>]
    /\ sink = {}
    /\ redis_index = {}
    /\ events = <<>>
    /\ clock = 0
    /\ crashes = 0
    /\ main_pc = "boot"
    /\ ext_pc = "poll"
    /\ ext_queue = <<>>
    /\ idx_pc = "reset_query"
    /\ idx_queue = <<>>
    /\ tasks = <<>>
    /\ pass = NoPass
    /\ hist = [f \in Files |-> NoHist]
    /\ orphans = 0
    /\ threads = [w \in WorkerNames |-> "alive"]
    /\ stop_event = [w \in WorkerNames |-> FALSE]
    /\ sd_pc = NoShutdown
    /\ resp = NoResp
    /\ batch = NoBatch

\* an empty registry and an empty directory; files of one paragraph
Init ==
    /\ registry = [f \in Files |-> NoRow]
    /\ disk = [f \in Files |-> "none"]
    /\ bytes \in [Files -> {c \in Contents : Len(c) = 1}]
    /\ Boot

\* the directory holds every file, with its metadata, before the process
\* starts, and is left alone: the paragraph lists range over all of Contents
InitIndex ==
    /\ registry = [f \in Files |-> NoRow]
    /\ disk = [f \in Files |-> "meta"]
    /\ bytes \in [Files -> Contents]
    /\ Boot

(***************************************************************************)
(* The watched directory and the watchdog worker:                          *)
(* core/workers/w_watchdog.py                                              *)
(***************************************************************************)
\* the Observer of the watchdog worker is started and not yet stopped
Observing == main_pc = "running" /\ threads[W_WATCHDOG] = "alive"

\* a PDF appears in the directory, with or without the xattr metadata
FileDropped(f, kind) ==
    /\ disk[f] = "none"
    /\ disk' = [disk EXCEPT ![f] = kind]
    /\ IF Observing
       THEN /\ Len(events) < MaxEvents
            /\ events' = Append(events, [kind |-> "created", file_name |-> f])
       ELSE events' = events
    /\ UNCHANGED <<registry, bytes, jsonl, sink, redis_index, clock, crashes,
                   main_pc, extvars, idxvars, hist,
                   auxvars>>

\* a PDF is removed from the directory
FileRemoved(f) ==
    /\ disk[f] # "none"
    /\ disk' = [disk EXCEPT ![f] = "none"]
    /\ IF Observing
       THEN /\ Len(events) < MaxEvents
            /\ events' = Append(events, [kind |-> "deleted", file_name |-> f])
       ELSE events' = events
    /\ UNCHANGED <<registry, bytes, jsonl, sink, redis_index, clock, crashes,
                   main_pc, extvars, idxvars, hist,
                   auxvars>>

\* the paragraph file of a PDF is removed from the directory (nothing in the
\* program deletes it)
JsonlRemoved(f) ==
    /\ jsonl[f] # <<>>
    /\ jsonl' = [jsonl EXCEPT ![f] = <<>>]
    /\ UNCHANGED <<registry, disk, bytes, sink, redis_index, events, clock,
                   crashes, main_pc, extvars, idxvars, hist,
                   auxvars>>

\* a watcher that registers nothing
AddNever(reg, dsk, f) == FALSE

\* the row add_file_to_db_if_ok would create, or none: the file is already
\* registered, cannot be read, or lacks user.user_id / user.file_name_orig
AddOk(reg, dsk, f) == ~reg[f].present /\ dsk[f] = "meta"

add_file_to_db_if_ok(reg, dsk, f, now) ==
    IF AddOk(reg, dsk, f)
    THEN create_file_sync(reg, FileItem(f, ST_NEW, now))
    ELSE reg

\* EventHandler.on_created
OnCreated ==
    /\ Observing
    /\ events # <<>>
    /\ Head(events).kind = "created"
    /\ LET f == Head(events).file_name
       IN  IF AddOk(registry, disk, f)
           THEN /\ clock < MaxClock
                /\ clock' = clock + 1
                /\ registry' = add_file_to_db_if_ok(registry, disk, f, clock + 1)
           ELSE UNCHANGED <<registry, clock>>
    /\ events' = Tail(events)
    /\ UNCHANGED <<disk, bytes, jsonl, sink, redis_index, crashes, main_pc,
                   extvars, idxvars, hist,
                   auxvars>>

\* EventHandler.on_deleted
OnDeleted ==
    /\ Observing
    /\ events # <<>>
    /\ Head(events).kind = "deleted"
    /\ registry' = delete_file_sync(registry, Head(events).file_name)
    /\ events' = Tail(events)
    /\ UNCHANGED <<disk, bytes, jsonl, sink, redis_index, clock, crashes, main_pc,
                   extvars, idxvars, hist,
                   auxvars>>

\* FilesRepository.cleanup_missing_files_sync(existing_file_names): removes
\* every row whose file_name is not among the files found on disk
cleanup_missing_files_sync(reg, dsk) ==
    [f \in Files |-> IF reg[f].present /\ dsk[f] = "none"
                     THEN NoRow ELSE reg[f]]

RECURSIVE AddExisting(_, _, _, _)
AddExisting(reg, dsk, S, now) ==
    IF S = {} THEN reg
    ELSE LET f == CHOOSE x \in S : \A y \in S : x <= y
         IN  AddExisting(add_file_to_db_if_ok(reg, dsk, f, now + 1), dsk,
                         S \ {f}, IF AddOk(reg, dsk, f) THEN now + 1 ELSE now)

\* spawn_worker of the watchdog, called by main before the other workers
\* are spawned: reconcile the registry with the directory
Reconcile ==
    /\ main_pc = "boot"
    /\ LET cleaned == cleanup_missing_files_sync(registry, disk)
           added == {f \in Files : AddOk(cleaned, disk, f)}
       IN  /\ clock + Cardinality(added) <= MaxClock
           /\ registry' = AddExisting(cleaned, disk,
                                      {f \in Files : disk[f] # "none"}, clock)
           /\ clock' = clock + Cardinality(added)
    /\ main_pc' = "running"
    /\ UNCHANGED <<disk, bytes, jsonl, sink, redis_index, events, crashes,
                   extvars, idxvars, hist,
                   auxvars>>

(***************************************************************************)
(* HTTP layer: core/routers/router_files.py                                *)
(***************************************************************************)
\* values of vector_store_id a request can carry
VectorStoreIds == {"", "vs_1"}

\* a handler that takes the body as it comes
CreateAnything(item) == TRUE

\* _create_file answers 400 unless processing_status and vector_store_id
\* of the body are empty
CreateAllowed(item) == item.processing_status = "" /\ item.vector_store_id = ""

\* FilesRouter._create_file: a record for a file that is in FILES_DIR; the
\* body carries any processing_status and vector_store_id.  400, 404 and a
\* failed INSERT leave the registry as it is.
HttpCreateFile(f, status, vsid) ==
    /\ main_pc = "running"
    /\ LET item == [FileItem(f, status, clock + 1) EXCEPT !.vector_store_id = vsid]
       IN  IF CreateAllowed(item) /\ disk[f] # "none" /\ ~registry[f].present
           THEN /\ clock < MaxClock
                /\ clock' = clock + 1
                /\ registry' = create_file_sync(registry, item)
           ELSE UNCHANGED <<registry, clock>>
    /\ UNCHANGED <<disk, bytes, jsonl, sink, redis_index, events, crashes, main_pc,
                   extvars, idxvars, hist,
                   auxvars>>

\* FilesRouter._delete_file: removes the record, not the file
HttpDeleteFile(f) ==
    /\ main_pc = "running"
    /\ registry[f].present
    /\ registry' = delete_file_sync(registry, f)
    /\ UNCHANGED <<disk, bytes, jsonl, sink, redis_index, events, clock, crashes,
                   main_pc, extvars, idxvars, hist,
                   auxvars>>

(***************************************************************************)
(* Extraction worker: core/workers/w_extractor.py                          *)
(***************************************************************************)
NewStatuses == {ST_NEW}

\* get_files_by_filter_sync("processing_status = ?", ("",))
ExtPoll ==
    /\ main_pc = "running"
    /\ ext_pc = "poll"
    /\ ~is_set(W_EXTRACTOR)
    /\ get_files_by_filter_sync(registry, NewStatuses) # <<>>
    /\ ext_queue' = get_files_by_filter_sync(registry, NewStatuses)
    /\ ext_pc' = "extract"
    /\ UNCHANGED <<registry, disk, bytes, jsonl, sink, redis_index, events, clock,
                   crashes, main_pc, idxvars, hist,
                   auxvars>>

ExtNext(queue) == IF Tail(queue) = <<>> THEN "poll" ELSE "extract"

\* get_file_paragraphs raises: the file is missing, the extractor fails or
\* it returns no paragraphs; the status becomes the error string
ExtFail ==
    /\ main_pc = "running"
    /\ ext_pc = "extract"
    /\ LET file == [Head(ext_queue) EXCEPT !.processing_status = ERR_EXTRACT]
       IN  registry' = update_file_sync(registry, file.file_name, file)
    /\ ext_queue' = Tail(ext_queue)
    /\ ext_pc' = ExtNext(ext_queue)
    /\ UNCHANGED <<disk, bytes, jsonl, sink, redis_index, events, clock, crashes,
                   main_pc, idxvars, hist,
                   auxvars>>

\* an extractor that persists extracted before it writes the paragraph file
ExtPersistsFirst ==
    /\ main_pc = "running"
    /\ ext_pc = "extract"
    /\ disk[Head(ext_queue).file_name] # "none"
    /\ LET file == [Head(ext_queue) EXCEPT !.processing_status = ST_EXTRACTED]
       IN  registry' = update_file_sync(registry, file.file_name, file)
    /\ ext_pc' = "persist"
    /\ UNCHANGED <<disk, bytes, jsonl, sink, redis_index, events, clock, crashes,
                   main_pc, ext_queue, idxvars, hist,
                   auxvars>>

\* get_file_paragraphs returns the paragraphs; the jsonl file is written
ExtWriteJsonl ==
    /\ main_pc = "running"
    /\ ext_pc = "extract"
    /\ disk[Head(ext_queue).file_name] # "none"
    /\ jsonl' = [jsonl EXCEPT ![Head(ext_queue).file_name] =
                     bytes[Head(ext_queue).file_name]]
    /\ ext_pc' = "persist"
    /\ UNCHANGED <<registry, disk, bytes, sink, redis_index, events, clock, crashes,
                   main_pc, ext_queue, idxvars, hist,
                   auxvars>>

\* file.processing_status = "extracted"; update_file_sync
ExtPersist ==
    /\ main_pc = "running"
    /\ ext_pc = "persist"
    /\ LET file == [Head(ext_queue) EXCEPT !.processing_status = ST_EXTRACTED]
       IN  registry' = update_file_sync(registry, file.file_name, file)
    /\ ext_queue' = Tail(ext_queue)
    /\ ext_pc' = ExtNext(ext_queue)
    /\ UNCHANGED <<disk, bytes, jsonl, sink, redis_index, events, clock, crashes,
                   main_pc, idxvars, hist,
                   auxvars>>

(***************************************************************************)
(* Redis sink: core/repositories/repo_redis.py                             *)
(***************************************************************************)
\* key f"{index_name}:{vec.id}"
RedisKey(file_name, id) == <<file_name, id>>

\* pipeline.hset(key, mapping=data): one hash per key, the last write wins
RECURSIVE add_vectors(_, _, _)
add_vectors(snk, index_name, vectors) ==
    IF vectors = <<>> THEN snk
    ELSE LET vec == Head(vectors)
             kept == {e \in snk : RedisKey(e.file_name, e.id)
                                    # RedisKey(index_name, vec.paragraph_id)}
         IN  add_vectors(kept \cup {[file_name |-> index_name,
                                     id |-> vec.paragraph_id,
                                     idx |-> vec.idx]},
                         index_name, Tail(vectors))

\* SCAN match f"{index_name}:*", ids = the keys without the prefix
get_all_vector_ids(snk, index_name) ==
    {e.id : e \in {x \in snk : x.file_name = index_name}}

(***************************************************************************)
(* Milvus sink: vectors/repositories/repo_milvus.py.  A collection is a    *)
(* set of rows; the primary key "id" is INT64 with auto_id.                *)
(***************************************************************************)
\* MilvusRepository.insert(collection_name, data): every item becomes a new
\* row with a fresh id
RECURSIVE milvus_insert(_, _)
milvus_insert(col, data) ==
    IF data = <<>> THEN col
    ELSE milvus_insert(col \cup {[id |-> Cardinality(col) + 1,
                                  par_id |-> Head(data).paragraph_id,
                                  idx |-> Head(data).idx]},
                       Tail(data))

(***************************************************************************)
(* Embedding tasks: core/processing/local_fs/process_paragraphs.py         *)
(***************************************************************************)
\* more_itertools.chunked(s, n)
RECURSIVE chunked(_, _)
chunked(s, n) ==
    IF s = <<>> THEN <<>>
    ELSE IF Len(s) <= n THEN <<s>>
    ELSE <<SubSeq(s, 1, n)>> \o chunked(SubSeq(s, n + 1, Len(s)), n)

\* the ParagraphVectorData of one paragraph: one per chunk, idx from 0
ParVecs(p) ==
    LET chunks == chunkify_text(p.paragraph_text, MIN_TOKENS, MAX_TOKENS)
    IN  [i \in 1..Len(chunks) |->
            [paragraph_id |-> p.paragraph_id, idx |-> i - 1, text |-> chunks[i]]]

\* p_vecs of process_paragraphs_batch: the chunks of all its paragraphs
RECURSIVE PVecs(_)
PVecs(paragraphs) ==
    IF paragraphs = <<>> THEN <<>>
    ELSE ParVecs(Head(paragraphs)) \o PVecs(Tail(paragraphs))

\* the embedding calls of a task: chunked(p_vecs, EMBEDDING_BATCH_SIZE)
Calls(paragraphs) == chunked(PVecs(paragraphs), EMBEDDING_BATCH_SIZE)

\* the paragraphs a task is created for.  The loop over the batch says
\* "if p.paragraph_id in processed_paragraphs: continue" and then hands
\* the whole batch to the task: nothing is removed from it.
TaskParagraphs(paragraphs, processed) == paragraphs

\* the paragraphs of the jsonl file with their ids: the extractor writes no
\* paragraph_id, so each gets generate_paragraph_id(text) with a fresh suffix
WithIds(texts, sfx) ==
    [i \in 1..Len(texts) |->
        [paragraph_id |-> generate_paragraph_id(texts[i], sfx[i]),
         paragraph_text |-> texts[i]]]

\* tasks of process_file_paragraphs
MakeTasks(paragraphs, processed) ==
    LET batches == chunked(paragraphs, EMBEDDING_BATCH_SIZE)
    IN  [i \in 1..Len(batches) |->
            [paragraphs |-> TaskParagraphs(batches[i], processed),
             st |-> "pending"]]

Running == {i \in 1..Len(tasks) : tasks[i].st = "running"}
Pending == {i \in 1..Len(tasks) : tasks[i].st = "pending"}
AllDone == \A i \in 1..Len(tasks) : tasks[i].st \in {"ok", "failed"}
AnyFailed == \E i \in 1..Len(tasks) : tasks[i].st = "failed"

\* results of asyncio.gather: the p_vecs of the tasks that returned them
RECURSIVE Gathered(_)
Gathered(ts) ==
    IF ts = <<>> THEN <<>>
    ELSE (IF Head(ts).st = "ok" THEN PVecs(Head(ts).paragraphs) ELSE <<>>)
         \o Gathered(Tail(ts))

RECURSIVE Flatten(_)
Flatten(ss) == IF ss = <<>> THEN <<>> ELSE Head(ss) \o Flatten(Tail(ss))

ChunkKeys(pvecs) ==
    {[paragraph_id |-> pvecs[i].paragraph_id, idx |-> pvecs[i].idx] :
        i \in 1..Len(pvecs)}

(***************************************************************************)
(* Indexing worker: core/processing/local_fs/worker.py,                    *)
(* processing/local_fs/process_file.py                                     *)
(***************************************************************************)
file == Head(idx_queue)

SetStatus(item, status) == [item EXCEPT !.processing_status = status]

\* a pass that does not mark the file before it starts its calls
MarkProcessingSkipped(item) == item

\* the file after file.processing_status = "processing"
MarkProcessing(item) == SetStatus(item, ST_PROCESSING)

\* a failure handler that leaves the status as it is
MarkIncompleteNoop(item) == item

\* the file after "if file.processing_status != 'incomplete': ... update"
MarkIncomplete(item) == SetStatus(item, ST_INCOMPLETE)

\* a final write that repeats the status the pass started with
FinalStatusKept(status) == status

\* the status process_single_file ends with
FinalStatus(status) == IF status # ST_INCOMPLETE THEN ST_COMPLETE ELSE status

IdxNext(queue) == IF Tail(queue) = <<>> THEN "poll" ELSE "mark"

\* reset_stuck_files: the query
ResetQuery ==
    /\ main_pc = "running"
    /\ idx_pc = "reset_query"
    /\ idx_queue' = get_files_by_filter_sync(registry, StuckStatuses)
    /\ idx_pc' = IF get_files_by_filter_sync(registry, StuckStatuses) = <<>>
                 THEN "poll" ELSE "reset"
    /\ UNCHANGED <<registry, disk, bytes, jsonl, sink, redis_index, events, clock,
                   crashes, main_pc, extvars, tasks, pass, hist,
                   auxvars>>

\* reset_stuck_files: one turn of the loop over processing_files
ResetStuck ==
    /\ main_pc = "running"
    /\ idx_pc = "reset"
    /\ registry' = update_file_sync(registry, file.file_name,
                                    SetStatus(file, ResetStatus))
    /\ idx_queue' = Tail(idx_queue)
    /\ idx_pc' = IF Tail(idx_queue) = <<>> THEN "poll" ELSE "reset"
    /\ UNCHANGED <<disk, bytes, jsonl, sink, redis_index, events, clock, crashes,
                   main_pc, extvars, tasks, pass, hist,
                   auxvars>>

\* process_files = get_files_to_process(ctx.files_repository)
IdxPoll ==
    /\ main_pc = "running"
    /\ idx_pc = "poll"
    /\ ~is_set(W_PROCESSOR)
    /\ get_files_to_process(registry) # <<>>
    /\ idx_queue' = get_files_to_process(registry)
    /\ idx_pc' = "mark"
    /\ UNCHANGED <<registry, disk, bytes, jsonl, sink, redis_index, events, clock,
                   crashes, main_pc, extvars, tasks, pass, hist,
                   auxvars>>

\* process_single_file: file.processing_status = "processing"; update
IdxMark ==
    /\ main_pc = "running"
    /\ idx_pc = "mark"
    /\ idx_queue' = <<MarkProcessing(file)>> \o Tail(idx_queue)
    /\ registry' = update_file_sync(registry, file.file_name,
                                    MarkProcessing(file))
    /\ tasks' = <<>>
    /\ pass' = [NoPass EXCEPT !.before = sink]
    /\ idx_pc' = "lookup"
    /\ UNCHANGED <<disk, bytes, jsonl, sink, redis_index, events, clock, crashes,
                   main_pc, extvars, hist,
                   auxvars>>

\* processed_paragraphs = set(ctx.repo_redis.get_all_vector_ids(file_name));
\* get_all_vector_ids returns [] when Redis fails
IdxLookup(ok) ==
    /\ main_pc = "running"
    /\ idx_pc = "lookup"
    /\ pass' = [pass EXCEPT
                   !.processed = IF ok THEN get_all_vector_ids(sink, file.file_name)
                                 ELSE {},
                   !.lookup = IF ok THEN "ok" ELSE "failed"]
    /\ idx_pc' = "jsonl"
    /\ UNCHANGED <<registry, disk, bytes, jsonl, sink, redis_index, events, clock,
                   crashes, main_pc, extvars, idx_queue, tasks, hist,
                   auxvars>>

\* the jsonl file is not on disk: mark_file_as_error and return
IdxJsonlMissing ==
    /\ main_pc = "running"
    /\ idx_pc = "jsonl"
    /\ jsonl[file.file_name] = <<>>
    /\ registry' = update_file_sync(registry, file.file_name,
                                    SetStatus(file, ERR_JSONL))
    /\ idx_queue' = Tail(idx_queue)
    /\ idx_pc' = IdxNext(idx_queue)
    /\ tasks' = <<>>
    /\ pass' = NoPass
    /\ UNCHANGED <<disk, bytes, jsonl, sink, redis_index, events, clock, crashes,
                   main_pc, extvars, hist,
                   auxvars>>

\* jsonl_reader(jsonl_file_path) for the file of the pass
Paragraphs == IF idx_queue = <<>> THEN <<>> ELSE jsonl[file.file_name]

\* process_file_paragraphs: one task per batch of paragraphs
IdxCreateTasks(sfx) ==
    /\ main_pc = "running"
    /\ idx_pc = "jsonl"
    /\ jsonl[file.file_name] # <<>>
    /\ tasks' = MakeTasks(WithIds(jsonl[file.file_name], sfx), pass.processed)
    /\ idx_pc' = "gather"
    /\ UNCHANGED <<registry, disk, bytes, jsonl, sink, redis_index, events, clock,
                   crashes, main_pc, extvars, idx_queue, pass, hist,
                   auxvars>>

\* asyncio.Semaphore(SEMAPHORE_LIMIT): acquire succeeds while fewer than
\* SEMAPHORE_LIMIT tasks are inside "async with semaphore"
SlotFree(running) == Cardinality(running) < SEMAPHORE_LIMIT

\* "async with semaphore": the next task enters when a slot is free and
\* awaits its first embedding call
TaskStart(i) ==
    /\ main_pc = "running"
    /\ idx_pc = "gather"
    /\ i \in Pending
    /\ \A j \in Pending : i <= j
    /\ SlotFree(Running)
    /\ tasks' = [tasks EXCEPT ![i].st = "running"]
    /\ UNCHANGED <<registry, disk, bytes, jsonl, sink, redis_index, events, clock,
                   crashes, main_pc, extvars, idx_pc, idx_queue, pass, hist,
                   auxvars>>

\* process_paragraphs_batch: the first k embedding calls succeed; when a
\* call fails the task marks the file incomplete and returns no vectors.
\* The failure is an exception of the call or the timeout of
\* asyncio.wait_for(asyncio.to_thread(create_embeddings), 30.0): the
\* timeout cancels the await, the thread goes on with its request.
TaskFinish(i, k, timeout) ==
    /\ main_pc = "running"
    /\ idx_pc = "gather"
    /\ i \in Running
    /\ timeout => (k < Len(Calls(tasks[i].paragraphs)) /\ orphans < MaxOrphans)
    /\ orphans' = IF timeout THEN orphans + 1 ELSE orphans
    /\ LET calls == Calls(tasks[i].paragraphs)
           issued == SubSeq(calls, 1, IF k < Len(calls) THEN k + 1 ELSE k)
       IN  /\ k \in 0..Len(calls)
           /\ pass' = [pass EXCEPT
                  !.emb_calls = @ \cup ChunkKeys(Flatten(issued)),
                  !.embedded = @ \cup ChunkKeys(Flatten(SubSeq(calls, 1, k)))]
           /\ IF k = Len(calls)
              THEN /\ tasks' = [tasks EXCEPT ![i].st = "ok"]
                   /\ UNCHANGED <<registry, idx_queue>>
              ELSE /\ tasks' = [tasks EXCEPT ![i].st = "failed"]
                   /\ idx_queue' = <<MarkIncomplete(file)>> \o Tail(idx_queue)
                   /\ IF file.processing_status # ST_INCOMPLETE
                      THEN registry' = update_file_sync(registry, file.file_name,
                                                       MarkIncomplete(file))
                      ELSE UNCHANGED registry
    /\ UNCHANGED <<disk, bytes, jsonl, sink, redis_index, events, clock, crashes,
                   main_pc, extvars, idx_pc, hist, resp, batch, sdvars>>

\* openai_wrappers/api_embeddings.py: create_embeddings returns in a thread
\* nobody awaits any more
EmbeddingThreadReturns ==
    /\ orphans > 0
    /\ orphans' = orphans - 1
    /\ UNCHANGED <<registry, disk, bytes, jsonl, sink, redis_index, events, clock,
                   crashes, main_pc, extvars, idxvars, hist, resp, batch, sdvars>>

(***************************************************************************)
(* vectors/save_strategies/save_redis.py                                   *)
(***************************************************************************)
SaveOutcomes == {"ok", "create_failed", "index_exists", "add"}

\* save_vectors_to_redis raises: no vectors, index_exists fails, or the
\* pipeline of add_vectors fails.  A failed create_vector_index returns
\* False, which the caller does not look at.
SaveRaises(p_vecs, outcome) ==
    p_vecs = <<>> \/ outcome \in {"index_exists", "add"}

SaveResult(p_vecs, outcome) == IF p_vecs = <<>> THEN "empty" ELSE outcome

\* the index after the call: created when it was missing and FT.CREATE ran
IndexAfter(idx_set, file_name, p_vecs, outcome) ==
    IF p_vecs # <<>> /\ outcome \in {"ok", "add"}
    THEN idx_set \cup {file_name} ELSE idx_set

\* the hashes after the call
SinkAfter(snk, file_name, p_vecs, outcome) ==
    IF SaveRaises(p_vecs, outcome) THEN snk
    ELSE add_vectors(snk, file_name, p_vecs)

\* asyncio.gather returned: save the vectors; on an exception
\* process_single_file sets the status incomplete and persists it
IdxSave(outcome) ==
    /\ main_pc = "running"
    /\ idx_pc = "gather"
    /\ AllDone
    /\ outcome = "create_failed" => file.file_name \notin redis_index
    /\ LET p_vecs == Gathered(tasks)
       IN  /\ p_vecs = <<>> => outcome = "ok"
           /\ sink' = SinkAfter(sink, file.file_name, p_vecs, outcome)
           /\ redis_index' = IndexAfter(redis_index, file.file_name, p_vecs, outcome)
           /\ pass' = [pass EXCEPT
                  !.save = SaveResult(p_vecs, outcome),
                  !.written = IF SaveRaises(p_vecs, outcome) THEN {}
                              ELSE ChunkKeys(p_vecs)]
           /\ IF SaveRaises(p_vecs, outcome)
              THEN /\ idx_queue' = <<MarkIncomplete(file)>> \o Tail(idx_queue)
                   /\ registry' = update_file_sync(registry, file.file_name,
                                                   MarkIncomplete(file))
              ELSE UNCHANGED <<registry, idx_queue>>
    /\ idx_pc' = "final"
    /\ UNCHANGED <<disk, bytes, jsonl, events, clock, crashes, main_pc, extvars,
                   tasks, hist,
                   auxvars>>

SinkFailed(ps) ==
    ps.lookup = "failed" \/ ps.save \in {"create_failed", "index_exists", "add"}

PassClass ==
    IF SinkFailed(pass) THEN "other"
    ELSE IF ~AnyFailed THEN "clean"
    ELSE IF \E i \in 1..Len(tasks) : tasks[i].st = "ok" THEN "partial"
    ELSE "other"

\* "if file.processing_status != 'incomplete': complete; update"
IdxFinal ==
    /\ main_pc = "running"
    /\ idx_pc = "final"
    /\ IF file.processing_status # ST_INCOMPLETE
       THEN registry' = update_file_sync(registry, file.file_name,
                                        SetStatus(file, FinalStatus(file.processing_status)))
       ELSE UNCHANGED registry
    /\ hist' = [hist EXCEPT ![file.file_name] =
                   [passes |-> IF @.passes < 2 THEN @.passes + 1 ELSE 2,
                    partial |-> @.passes = 0 /\ PassClass = "partial",
                    sink_failed |-> @.sink_failed \/ SinkFailed(pass),
                    crashed |-> FALSE]]
    /\ idx_queue' = Tail(idx_queue)
    /\ idx_pc' = IdxNext(idx_queue)
    /\ tasks' = <<>>
    /\ pass' = NoPass
    /\ UNCHANGED <<disk, bytes, jsonl, sink, redis_index, events, clock, crashes,
                   main_pc, extvars,
                   auxvars>>

(***************************************************************************)
(* The process dies and is started again: memory is lost, the registry,    *)
(* the directory and Redis stay.                                           *)
(***************************************************************************)
WrittenNotFinal(f) ==
    /\ idx_pc = "final"
    /\ file.file_name = f
    /\ pass.save \in {"ok", "create_failed"}
    /\ registry[f].present
    /\ registry[f].processing_status = ST_PROCESSING

Crash ==
    /\ main_pc = "running"
    /\ crashes < MaxCrashes
    /\ crashes' = crashes + 1
    /\ main_pc' = "boot"
    /\ events' = <<>>
    /\ ext_pc' = "poll"
    /\ ext_queue' = <<>>
    /\ idx_pc' = "reset_query"
    /\ idx_queue' = <<>>
    /\ tasks' = <<>>
    /\ pass' = NoPass
    /\ hist' = [f \in Files |->
                   IF WrittenNotFinal(f) THEN [hist[f] EXCEPT !.crashed = TRUE]
                   ELSE hist[f]]
    /\ orphans' = 0
    /\ threads' = [w \in WorkerNames |-> "alive"]
    /\ stop_event' = [w \in WorkerNames |-> FALSE]
    /\ sd_pc' = NoShutdown
    /\ resp' = NoResp
    /\ batch' = NoBatch
    /\ UNCHANGED <<registry, disk, bytes, jsonl, sink, redis_index, clock>>

(***************************************************************************)
(* Shutdown: core/server.py, and the loop conditions of the workers        *)
(***************************************************************************)
\* "while not stop_event.is_set()" of the watchdog worker is false:
\* observer.stop(); observer.join(); the thread ends
WatchdogExit ==
    /\ main_pc = "running"
    /\ threads[W_WATCHDOG] = "alive"
    /\ is_set(W_WATCHDOG)
    /\ threads' = [threads EXCEPT ![W_WATCHDOG] = "exited"]
    /\ events' = <<>>
    /\ UNCHANGED <<registry, disk, bytes, jsonl, sink, redis_index, clock, crashes,
                   main_pc, extvars, idxvars, hist, resp, orphans, batch, stop_event, sd_pc>>

\* "while not stop_event.is_set()" of the extraction worker is false
ExtExit ==
    /\ main_pc = "running"
    /\ ext_pc = "poll"
    /\ is_set(W_EXTRACTOR)
    /\ ext_pc' = "exited"
    /\ threads' = [threads EXCEPT ![W_EXTRACTOR] = "exited"]
    /\ UNCHANGED <<registry, disk, bytes, jsonl, sink, redis_index, events, clock,
                   crashes, main_pc, ext_queue, idxvars, hist, resp, orphans, batch, stop_event,
                   sd_pc>>

\* "while not stop_event.is_set()" of p_local_fs_worker is false; finally
IdxExit ==
    /\ main_pc = "running"
    /\ idx_pc = "poll"
    /\ is_set(W_PROCESSOR)
    /\ idx_pc' = "exited"
    /\ threads' = [threads EXCEPT ![W_PROCESSOR] = "exited"]
    /\ UNCHANGED <<registry, disk, bytes, jsonl, sink, redis_index, events, clock,
                   crashes, main_pc, extvars, idx_queue, tasks, pass, hist, resp, orphans, batch,
                   stop_event, sd_pc>>

\* the extraction worker has the paragraphs of a file and
\* jsonl_file.open("w") or f.write raises (the directory is not writable,
\* the disk is full): the statement is outside the try of the loop body,
\* the exception leaves the for and the while, the thread ends
ExtDies ==
    /\ main_pc = "running"
    /\ ext_pc = "extract"
    /\ disk[Head(ext_queue).file_name] # "none"
    /\ ext_pc' = "exited"
    /\ ext_queue' = <<>>
    /\ threads' = [threads EXCEPT ![W_EXTRACTOR] = "exited"]
    /\ UNCHANGED <<registry, disk, bytes, jsonl, sink, redis_index, events, clock,
                   crashes, main_pc, idxvars, hist, resp, orphans, batch, stop_event, sd_pc>>

\* process_single_file raises after it has marked the file processing
\* (with the Milvus repository: list_collections(), which no try encloses);
\* p_local_fs_worker has try/finally and no except: the thread ends
IdxDies ==
    /\ main_pc = "running"
    /\ idx_pc = "lookup"
    /\ idx_pc' = "exited"
    /\ idx_queue' = <<>>
    /\ tasks' = <<>>
    /\ pass' = NoPass
    /\ threads' = [threads EXCEPT ![W_PROCESSOR] = "exited"]
    /\ UNCHANGED <<registry, disk, bytes, jsonl, sink, redis_index, events, clock,
                   crashes, main_pc, extvars, hist, resp, orphans, batch, stop_event, sd_pc>>

\* handle_exit: SIGINT or SIGTERM starts Server.shutdown
ShutdownBegin ==
    /\ main_pc = "running"
    /\ sd_pc.at = "idle"
    /\ sd_pc' = [at |-> "signal", i |-> 1]
    /\ UNCHANGED <<registry, disk, bytes, jsonl, sink, redis_index, events, clock,
                   crashes, main_pc, extvars, idxvars, hist, resp, orphans, batch, threads,
                   stop_event>>

\* worker.stop_event.set() for the worker of this turn of the loop
ShutdownSignal ==
    /\ main_pc = "running"
    /\ sd_pc.at = "signal"
    /\ stop_event' = [stop_event EXCEPT ![Workers[sd_pc.i]] = TRUE]
    /\ sd_pc' = [sd_pc EXCEPT !.at = "join"]
    /\ UNCHANGED <<registry, disk, bytes, jsonl, sink, redis_index, events, clock,
                   crashes, main_pc, extvars, idxvars, hist, resp, orphans, batch, threads>>

\* a join that has no timeout: it returns when the thread has ended
JoinForever(state, how) == how = "exited" /\ state = "exited"

\* thread.join(timeout=5) returns: the thread has ended, or it is alive and
\* the five seconds are over
JoinReturns(state, how) ==
    \/ how = "exited" /\ state = "exited"
    \/ how = "timeout" /\ state = "alive"

\* worker.thread.join(timeout=5) returns; is_alive() only logs a warning;
\* the loop goes to the next worker, or to uvicorn's own shutdown
ShutdownJoin(how) ==
    /\ main_pc = "running"
    /\ sd_pc.at = "join"
    /\ JoinReturns(threads[Workers[sd_pc.i]], how)
    /\ sd_pc' = IF sd_pc.i < Len(Workers)
                THEN [at |-> "signal", i |-> sd_pc.i + 1]
                ELSE [at |-> "done", i |-> sd_pc.i]
    /\ UNCHANGED <<registry, disk, bytes, jsonl, sink, redis_index, events, clock,
                   crashes, main_pc, extvars, idxvars, hist, resp, orphans, batch, threads,
                   stop_event>>

Next ==
    \/ \E f \in Files, kind \in {"meta", "nometa"} : FileDropped(f, kind)
    \/ \E f \in Files : FileRemoved(f)
    \/ \E f \in Files : JsonlRemoved(f)
    \/ OnCreated
    \/ OnDeleted
    \/ Reconcile
    \/ \E f \in Files, status \in {ST_NEW, ST_COMPLETE}, vsid \in VectorStoreIds :
          HttpCreateFile(f, status, vsid)
    \/ \E f \in Files : HttpDeleteFile(f)
    \/ ExtPoll
    \/ ExtFail
    \/ ExtWriteJsonl
    \/ ExtPersist
    \/ ResetQuery
    \/ ResetStuck
    \/ IdxPoll
    \/ IdxMark
    \/ \E ok \in BOOLEAN : IdxLookup(ok)
    \/ IdxJsonlMissing
    \/ \E sfx \in [1..Len(Paragraphs) -> Suffixes] : IdxCreateTasks(sfx)
    \/ \E i \in 1..Len(tasks) : TaskStart(i)
    \/ \E i \in 1..Len(tasks) :
          \E k \in 0..Len(Calls(tasks[i].paragraphs)) : TaskFinish(i, k, FALSE)
    \/ \E outcome \in SaveOutcomes : IdxSave(outcome)
    \/ IdxFinal
    \/ Crash

\* every interleaving of the directory, the HTTP layer and the workers over
\* files of one paragraph; an embedding call fails with an exception
Spec == Init /\ [][Next]_vars

\* the pipeline over a directory nobody touches: reconcile, extract, index,
\* crash and restart; an embedding call fails with an exception or times out
NextIndex ==
    \/ Reconcile
    \/ ExtPoll
    \/ ExtFail
    \/ ExtWriteJsonl
    \/ ExtPersist
    \/ ResetQuery
    \/ ResetStuck
    \/ IdxPoll
    \/ IdxMark
    \/ \E ok \in BOOLEAN : IdxLookup(ok)
    \/ \E sfx \in [1..Len(Paragraphs) -> Suffixes] : IdxCreateTasks(sfx)
    \/ \E i \in 1..Len(tasks) : TaskStart(i)
    \/ \E i \in 1..Len(tasks) :
          \E k \in 0..Len(Calls(tasks[i].paragraphs)) :
             \E timeout \in BOOLEAN : TaskFinish(i, k, timeout)
    \/ EmbeddingThreadReturns
    \/ \E outcome \in SaveOutcomes : IdxSave(outcome)
    \/ IdxFinal
    \/ Crash

SpecIndex == InitIndex /\ [][NextIndex]_vars

(***************************************************************************)
(* The repository alone: calls of create_file_sync, update_file_sync and   *)
(* delete_file_sync with any FileItem, and what they return.               *)
(***************************************************************************)
\* statuses of the FileItems handed to the repository: the new record and
\* the ones the workers write on the way to complete
RepoStatuses == {ST_NEW, ST_EXTRACTED, ST_PROCESSING, ST_COMPLETE}

Items ==
    {[FileItem(f, status, created) EXCEPT !.vector_store_id = vsid] :
        f \in Files, status \in RepoStatuses, created \in 1..MaxClock,
        vsid \in VectorStoreIds}

RepoFrame ==
    UNCHANGED <<disk, bytes, jsonl, sink, redis_index, events, clock, crashes,
                main_pc, extvars, idxvars, hist, orphans, batch, sdvars>>

RepoCreate(item) ==
    /\ registry' = create_file_sync(registry, item)
    /\ resp' = [call |-> "create_file_sync", file_name |-> item.file_name,
                ok |-> create_file_ok(registry, item)]
    /\ RepoFrame

RepoUpdate(item) ==
    /\ registry' = update_file_sync(registry, item.file_name, item)
    /\ resp' = [call |-> "update_file_sync", file_name |-> item.file_name,
                ok |-> rowcount_ok(registry, item.file_name)]
    /\ RepoFrame

RepoDelete(f) ==
    /\ registry' = delete_file_sync(registry, f)
    /\ resp' = [call |-> "delete_file_sync", file_name |-> f,
                ok |-> rowcount_ok(registry, f)]
    /\ RepoFrame

NextRegistry ==
    \/ \E item \in Items : RepoCreate(item)
    \/ \E item \in Items : RepoUpdate(item)
    \/ \E f \in Files : RepoDelete(f)

SpecRegistry == Init /\ [][NextRegistry]_vars

\* one file of one short paragraph is in the directory when the process
\* starts
InitShutdown ==
    /\ registry = [f \in Files |-> NoRow]
    /\ disk = [f \in Files |-> "meta"]
    /\ bytes = [f \in Files |-> <<ShortText>>]
    /\ Boot

\* the workers at their file, with the exceptions that end a worker thread,
\* while a signal starts the shutdown
NextShutdown ==
    \/ Reconcile
    \/ ExtPoll
    \/ ExtFail
    \/ ExtWriteJsonl
    \/ ExtPersist
    \/ ResetQuery
    \/ IdxPoll
    \/ IdxMark
    \/ \E ok \in BOOLEAN : IdxLookup(ok)
    \/ \E sfx \in [1..Len(Paragraphs) -> Suffixes] : IdxCreateTasks(sfx)
    \/ \E i \in 1..Len(tasks) : TaskStart(i)
    \/ \E i \in 1..Len(tasks) :
          \E k \in 0..Len(Calls(tasks[i].paragraphs)) : TaskFinish(i, k, FALSE)
    \/ \E outcome \in SaveOutcomes : IdxSave(outcome)
    \/ IdxFinal
    \/ WatchdogExit
    \/ ExtExit
    \/ IdxExit
    \/ ExtDies
    \/ IdxDies
    \/ ShutdownBegin
    \/ ShutdownSignal
    \/ \E how \in {"exited", "timeout"} : ShutdownJoin(how)

\* the steps of Server.shutdown are not held back: set() returns at once and
\* join(timeout=5) returns after five seconds at the latest.  Nothing is
\* assumed about the workers.
SpecShutdown ==
    /\ InitShutdown
    /\ [][NextShutdown]_vars
    /\ WF_vars(ShutdownSignal)
    /\ WF_vars(\E how \in {"exited", "timeout"} : ShutdownJoin(how))

\* a step of the watcher's thread, of the extraction worker, of the indexing
\* worker
WatchdogStep == WatchdogExit
ExtStep == ExtPoll \/ ExtFail \/ ExtWriteJsonl \/ ExtPersist \/ ExtExit \/ ExtDies
IdxStep ==
    \/ ResetQuery
    \/ IdxPoll
    \/ IdxMark
    \/ \E ok \in BOOLEAN : IdxLookup(ok)
    \/ \E sfx \in [1..Len(Paragraphs) -> Suffixes] : IdxCreateTasks(sfx)
    \/ \E i \in 1..Len(tasks) : TaskStart(i)
    \/ \E i \in 1..Len(tasks) :
          \E k \in 0..Len(Calls(tasks[i].paragraphs)) : TaskFinish(i, k, FALSE)
    \/ \E outcome \in SaveOutcomes : IdxSave(outcome)
    \/ IdxFinal
    \/ IdxExit
    \/ IdxDies

\* the shutdown with the worker threads scheduled: a thread that can take a
\* step takes one; a call to the registry, to the embedding service (30 s
\* timeout) or to the sink returns or raises
SpecStop ==
    /\ InitShutdown
    /\ [][NextShutdown]_vars
    /\ WF_vars(Reconcile)
    /\ WF_vars(WatchdogStep)
    /\ WF_vars(ExtStep)
    /\ WF_vars(IdxStep)
    /\ WF_vars(ShutdownSignal)
    /\ WF_vars(\E how \in {"exited", "timeout"} : ShutdownJoin(how))

(***************************************************************************)
(* One embedding batch of process_paragraphs_batch followed on its own:    *)
(* the call, the check of the response, the sort by index and the zip, and *)
(* the save of what the task returns.                                      *)
(***************************************************************************)
MaxBatch == 3

\* texts of the chunks of a batch: two different texts
ChunkTexts == {1, 2}

\* the embedding the service computes for a text
Embedding(text) == <<text + 100>>

\* ParagraphVectorData.embedding before it is assigned
NoEmbedding == <<>>

\* an embedding value that is not a list
NotAList == <<0>>

\* p_vecs_batch: one to MaxBatch chunks, no embedding yet
PVecBatches ==
    UNION {[1..n -> [text : ChunkTexts, embedding : {NoEmbedding}]] :
              n \in 1..MaxBatch}

\* res.data of a well-formed response in request order, followed by one
\* item more than was asked for
ResponseItems(p_vecs) ==
    [i \in 1..(Len(p_vecs) + 1) |->
        [index |-> i - 1,
         embedding |-> Embedding(p_vecs[IF i <= Len(p_vecs) THEN i ELSE 1].text)]]

\* the orders and the numbers of items a response can have: all n items in
\* any order, or another number of items
Orders(n) ==
    UNION {{o \in [1..k -> 1..(n + 1)] :
               /\ \A i, j \in 1..k : o[i] = o[j] => i = j
               /\ k = n => \A i \in 1..k : o[i] <= n} : k \in 0..(n + 1)}

Responses(p_vecs) ==
    {[i \in DOMAIN o |-> ResponseItems(p_vecs)[o[i]]] : o \in Orders(Len(p_vecs))}

\* the response with the embedding of item b replaced by a non-list
Spoil(data, b) ==
    IF b = 0 THEN data ELSE [data EXCEPT ![b].embedding = NotAList]

\* a response list left in the order it arrived in
Unsorted(data) == data

RECURSIVE InsertByIndex(_, _)
InsertByIndex(x, s) ==
    IF s = <<>> THEN <<x>>
    ELSE IF x.index < Head(s).index THEN <<x>> \o s
    ELSE <<Head(s)>> \o InsertByIndex(x, Tail(s))

\* embeddings.sort(key=lambda i: i.index): a stable sort
RECURSIVE SortByIndex(_)
SortByIndex(data) ==
    IF data = <<>> THEN <<>>
    ELSE InsertByIndex(data[Len(data)],
                       SortByIndex(SubSeq(data, 1, Len(data) - 1)))

BatchFrame ==
    UNCHANGED <<registry, disk, bytes, jsonl, sink, redis_index, events, clock,
                crashes, main_pc, extvars, idxvars, hist, orphans, resp, sdvars>>

\* res = await asyncio.wait_for(async_create_embeddings(...), timeout=30.0)
BatchCall(data) ==
    /\ batch.pc = "call"
    /\ batch' = [batch EXCEPT !.pc = "answered", !.data = data]
    /\ BatchFrame

\* the call raises or times out: the task marks the file incomplete and
\* returns no p_vecs
BatchCallFails ==
    /\ batch.pc = "call"
    /\ batch' = [batch EXCEPT !.pc = "done", !.ret = <<>>,
                              !.status = "incomplete"]
    /\ BatchFrame

\* the length check, the sort, the zip with its type check, and the return
BatchAssign ==
    /\ batch.pc = "answered"
    /\ LET n == Len(batch.p_vecs)
           embeddings == SortByIndex(batch.data)
           bad == {i \in 1..n : i <= Len(embeddings)
                                /\ embeddings[i].embedding = NotAList}
           stop == IF bad = {} THEN n
                   ELSE (CHOOSE i \in bad : \A j \in bad : i <= j) - 1
           assigned == [i \in 1..n |->
                           IF i <= stop
                           THEN [batch.p_vecs[i] EXCEPT
                                    !.embedding = embeddings[i].embedding]
                           ELSE batch.p_vecs[i]]
       IN  IF Len(batch.data) # n
           THEN batch' = [batch EXCEPT !.pc = "done", !.ret = <<>>,
                                       !.status = "incomplete"]
           ELSE IF bad # {}
           THEN batch' = [batch EXCEPT !.pc = "done", !.p_vecs = assigned,
                                       !.ret = <<>>, !.status = "incomplete"]
           ELSE batch' = [batch EXCEPT !.pc = "done", !.p_vecs = assigned,
                                       !.ret = assigned]
    /\ BatchFrame

\* the p_vecs the task returned are saved
BatchSave ==
    /\ batch.pc = "done"
    /\ batch' = [batch EXCEPT
                    !.pc = "saved",
                    !.written = {[pos |-> i, text |-> batch.ret[i].text,
                                  embedding |-> batch.ret[i].embedding] :
                                    i \in 1..Len(batch.ret)}]
    /\ BatchFrame

InitBatch ==
    /\ registry = [f \in Files |-> NoRow]
    /\ disk = [f \in Files |-> "none"]
    /\ bytes = [f \in Files |-> <<ShortText>>]
    /\ jsonl = [f \in Files |-> <<>>]
    /\ sink = {}
    /\ redis_index = {}
    /\ events = <<>>
    /\ clock = 0
    /\ crashes = 0
    /\ main_pc = "running"
    /\ ext_pc = "poll"
    /\ ext_queue = <<>>
    /\ idx_pc = "gather"
    /\ idx_queue = <<>>
    /\ tasks = <<>>
    /\ pass = NoPass
    /\ hist = [f \in Files |-> NoHist]
    /\ orphans = 0
    /\ threads = [w \in WorkerNames |-> "alive"]
    /\ stop_event = [w \in WorkerNames |-> FALSE]
    /\ sd_pc = NoShutdown
    /\ resp = NoResp
    /\ \E p_vecs \in PVecBatches : batch = [NoBatch EXCEPT !.pc = "call",
                                                            !.p_vecs = p_vecs]

NextBatch ==
    \/ /\ batch.pc = "call"
       /\ \E data \in Responses(batch.p_vecs) :
             \E b \in 0..Len(data) : BatchCall(Spoil(data, b))
    \/ BatchCallFails
    \/ BatchAssign
    \/ BatchSave

SpecBatch == InitBatch /\ [][NextBatch]_vars

(***************************************************************************)
(* The watcher and the extractor, spawn_worker in its two steps: the scan,  *)
(* cleanup and registration run in the caller; observer.start() runs in    *)
(* the thread that spawn_worker starts last. main_pc is "scanned" between  *)
(* the two.                                                                *)
(***************************************************************************)
\* spawn_worker up to worker_thread.start()
SpawnScan ==
    /\ main_pc = "boot"
    /\ LET cleaned == cleanup_missing_files_sync(registry, disk)
           added == {f \in Files : AddOk(cleaned, disk, f)}
       IN  /\ clock + Cardinality(added) <= MaxClock
           /\ registry' = AddExisting(cleaned, disk,
                                      {f \in Files : disk[f] # "none"}, clock)
           /\ clock' = clock + Cardinality(added)
    /\ main_pc' = "scanned"
    /\ UNCHANGED <<disk, bytes, jsonl, sink, redis_index, events, crashes,
                   extvars, idxvars, hist,
                   auxvars>>

\* worker: observer.schedule(...); observer.start()
ObserverStart ==
    /\ main_pc = "scanned"
    /\ main_pc' = "running"
    /\ UNCHANGED <<registry, disk, bytes, jsonl, sink, redis_index, events, clock,
                   crashes, extvars, idxvars, hist,
                   auxvars>>

\* a PDF appears while the registry can still take a record for it
WatchDropped(f, kind) == clock < MaxClock /\ FileDropped(f, kind)

\* the process dies between the scan and observer.start()
CrashScanned ==
    /\ main_pc = "scanned"
    /\ crashes < MaxCrashes
    /\ crashes' = crashes + 1
    /\ main_pc' = "boot"
    /\ UNCHANGED <<registry, disk, bytes, jsonl, sink, redis_index, events, clock,
                   extvars, idxvars, hist,
                   auxvars>>

InitWatch ==
    /\ registry = [f \in Files |-> NoRow]
    /\ disk \in [Files -> {"none", "meta", "nometa"}]
    /\ bytes = [f \in Files |-> <<ShortText>>]
    /\ Boot

NextWatch ==
    \/ SpawnScan
    \/ ObserverStart
    \/ \E f \in Files : \E kind \in {"meta", "nometa"} : WatchDropped(f, kind)
    \/ \E f \in Files : FileRemoved(f)
    \/ OnCreated
    \/ OnDeleted
    \/ ExtPoll
    \/ ExtFail
    \/ ExtWriteJsonl
    \/ ExtPersist
    \/ Crash
    \/ CrashScanned

\* the caller of spawn_worker runs on, the thread it started is scheduled,
\* and the observer's thread dispatches the events it has queued
SpecWatch ==
    /\ InitWatch
    /\ [][NextWatch]_vars
    /\ WF_vars(SpawnScan)
    /\ WF_vars(ObserverStart)
    /\ WF_vars(OnCreated)
    /\ WF_vars(OnDeleted)

(***************************************************************************)
(* The chunker on its own: one paragraph text is split by chunkify_text,   *)
(* its chunks become p_vecs, and their texts are handed to the embedding   *)
(* service.                                                                *)
(***************************************************************************)
MaxLines == 6

\* lengths of a line in characters, its line end included: a short line, a
\* line below and a line above min_tokens * 4 characters
LineLengths == {40, 800, 1100}

\* non-empty paragraph texts: one to MaxLines lines
ParagraphTexts == UNION {[1..n -> LineLengths] : n \in 1..MaxLines}

\* p_vecs of process_paragraphs_batch for one paragraph
ChunkParagraph ==
    /\ batch.pc = "paragraph"
    /\ LET chunks == chunkify_text(batch.paragraph, MIN_TOKENS, MAX_TOKENS)
       IN  batch' = [batch EXCEPT
                        !.pc = "chunked",
                        !.p_vecs = [i \in 1..Len(chunks) |->
                                       [idx |-> i - 1, text |-> chunks[i],
                                        embedding |-> NoEmbedding]]]
    /\ BatchFrame

\* async_create_embeddings(ctx.client, [p.text for p in p_vecs_batch])
HandToService ==
    /\ batch.pc = "chunked"
    /\ batch' = [batch EXCEPT
                    !.pc = "sent",
                    !.data = [i \in 1..Len(batch.p_vecs) |-> batch.p_vecs[i].text]]
    /\ BatchFrame

InitChunk ==
    /\ registry = [f \in Files |-> NoRow]
    /\ disk = [f \in Files |-> "none"]
    /\ bytes = [f \in Files |-> <<ShortText>>]
    /\ jsonl = [f \in Files |-> <<>>]
    /\ sink = {}
    /\ redis_index = {}
    /\ events = <<>>
    /\ clock = 0
    /\ crashes = 0
    /\ main_pc = "running"
    /\ ext_pc = "poll"
    /\ ext_queue = <<>>
    /\ idx_pc = "gather"
    /\ idx_queue = <<>>
    /\ tasks = <<>>
    /\ pass = NoPass
    /\ hist = [f \in Files |-> NoHist]
    /\ orphans = 0
    /\ threads = [w \in WorkerNames |-> "alive"]
    /\ stop_event = [w \in WorkerNames |-> FALSE]
    /\ sd_pc = NoShutdown
    /\ resp = NoResp
    /\ \E text \in ParagraphTexts :
          batch = [NoBatch EXCEPT !.pc = "paragraph", !.paragraph = text]

NextChunk == ChunkParagraph \/ HandToService

SpecChunk == InitChunk /\ [][NextChunk]_vars

(***************************************************************************)
(* save_vectors_to_redis on its own: vectors/save_strategies/save_redis.py *)
(* called with any list of vectors, each call with embeddings of one       *)
(* dimension, against a Redis that answers or fails.                       *)
(***************************************************************************)
\* dimensions of the embeddings of a call: that of the configured model, or
\* that of another model after a change of configuration
Dimensions == {2, 3}

\* p_vecs as process_file_paragraphs hands them over, with their embeddings
WithEmbeddings(p_vecs, d) ==
    [i \in 1..Len(p_vecs) |->
        [paragraph_id |-> p_vecs[i].paragraph_id,
         idx |-> p_vecs[i].idx,
         text |-> p_vecs[i].text,
         embedding |-> [k \in 1..d |-> 1]]]

VectorLists ==
    {<<>>} \cup
    {WithEmbeddings(PVecs(WithIds(c, sfx)), d) :
        c \in Contents, sfx \in [1..MaxPars -> Suffixes], d \in Dimensions}

\* a save that sends FT.CREATE whether or not the index exists
create_always(idx_set, file_name, p_vecs, outcome) ==
    p_vecs # <<>> /\ outcome # "index_exists"

\* create_vector_index is called: there are vectors, index_exists returned
\* False
create_issued(idx_set, file_name, p_vecs, outcome) ==
    p_vecs # <<>> /\ outcome # "index_exists" /\ file_name \notin idx_set

SaveFrame ==
    UNCHANGED <<registry, disk, bytes, jsonl, events, clock, crashes, main_pc,
                extvars, idxvars, hist, orphans, batch, sdvars>>

\* save_vectors_to_redis(ctx, file, paragraph_vectors)
SaveVectors(f, p_vecs, outcome) ==
    /\ outcome = "create_failed" => f \notin redis_index
    /\ p_vecs = <<>> => outcome = "ok"
    /\ resp' = [call |-> "save_vectors_to_redis", file_name |-> f,
                ok |-> ~SaveRaises(p_vecs, outcome),
                created |-> /\ create_issued(redis_index, f, p_vecs, outcome)
                            /\ outcome # "create_failed",
                dim |-> IF create_issued(redis_index, f, p_vecs, outcome)
                        THEN Len(p_vecs[1].embedding) ELSE 0]
    /\ redis_index' = IndexAfter(redis_index, f, p_vecs, outcome)
    /\ sink' = SinkAfter(sink, f, p_vecs, outcome)
    /\ SaveFrame

NextSave ==
    \E f \in Files : \E p_vecs \in VectorLists : \E outcome \in SaveOutcomes :
        SaveVectors(f, p_vecs, outcome)

SpecSave == Init /\ [][NextSave]_vars

(***************************************************************************)
(* Properties.                                                             *)
(***************************************************************************)
PassPcs == {"lookup", "jsonl", "gather", "final"}

\* the indexing worker has marked a file processing and has not yet
\* persisted the final status of the pass
InPass == idx_pc \in PassPcs

\* the step in which process_single_file persists the final status
PassEnds == idx_pc = "final" /\ idx_pc' # "final" /\ crashes' = crashes

Status(reg, f) == reg[f].processing_status

NumChunks(text) == Len(chunkify_text(text, MIN_TOKENS, MAX_TOKENS))

\* paragraphs of texts that have chunk j of a text with digest h
Expected(texts, h, j) ==
    Cardinality({i \in 1..Len(texts) :
        generate_content_hash(texts[i]) = h /\ j < NumChunks(texts[i])})

\* vectors of file f in the sink that are chunk j of a text with digest h
Stored(snk, f, h, j) ==
    Cardinality({e \in snk : e.file_name = f /\ e.id[1] = h /\ e.idx = j})

\* the sink holds, for file f, one vector per chunk of texts and no other
OnePerChunk(snk, f, texts) ==
    /\ \A i \in 1..Len(texts) : \A j \in 0..(NumChunks(texts[i]) - 1) :
          Stored(snk, f, generate_content_hash(texts[i]), j)
              = Expected(texts, generate_content_hash(texts[i]), j)
    /\ \A e \in snk : e.file_name = f => Expected(texts, e.id[1], e.idx) > 0

\* the texts of the paragraphs whose task returned its vectors
RECURSIVE OkTexts(_)
OkTexts(ts) ==
    IF ts = <<>> THEN <<>>
    ELSE (IF Head(ts).st = "ok"
          THEN [i \in 1..Len(Head(ts).paragraphs) |->
                   Head(ts).paragraphs[i].paragraph_text]
          ELSE <<>>) \o OkTexts(Tail(ts))

\* the chunks of every paragraph the pass created a task for
RECURSIVE TodoKeys(_)
TodoKeys(ts) ==
    IF ts = <<>> THEN {}
    ELSE ChunkKeys(PVecs(Head(ts).paragraphs)) \cup TodoKeys(Tail(ts))

\* C1: in a pass no embedding call is issued for a paragraph whose id is in
\* the set the lookup at the start of that pass returned.
C1_NoEmbeddingOfStoredId ==
    \A c \in pass.emb_calls : c.paragraph_id \notin pass.processed

\* C2: when a pass after the first ends without a failure, and no sink call
\* has failed in any pass over the file, the status is complete and the
\* sink holds exactly one vector per chunk of the file: none missing, none
\* stored twice.
C2_OneVectorPerChunk ==
    [][(PassEnds /\ PassClass = "clean"
        /\ hist[file.file_name].passes >= 1
        /\ ~hist[file.file_name].sink_failed)
       => /\ Status(registry', file.file_name) = ST_COMPLETE
          /\ OnePerChunk(sink', file.file_name, jsonl[file.file_name])]_vars

\* C3: when embedding fails for some but not all paragraphs in the first
\* pass, the pass ends incomplete with exactly the vectors of the paragraphs
\* that succeeded in the sink; the following pass, when nothing fails, ends
\* complete with exactly the vectors of all paragraphs, none duplicated.
C3_PartialThenComplete ==
    [][(PassEnds /\ crashes = 0 /\ ~SinkFailed(pass)
        /\ ~hist[file.file_name].sink_failed)
       => /\ (hist[file.file_name].passes = 0 /\ PassClass = "partial")
             => /\ Status(registry', file.file_name) = ST_INCOMPLETE
                /\ OnePerChunk(sink', file.file_name, OkTexts(tasks))
          /\ (hist[file.file_name].passes = 1 /\ hist[file.file_name].partial
              /\ PassClass = "clean")
             => /\ Status(registry', file.file_name) = ST_COMPLETE
                /\ OnePerChunk(sink', file.file_name, jsonl[file.file_name])]_vars

\* C4: in the pass that follows a crash between the sink write and the final
\* status, no embedding call is issued for a chunk the sink already holds.
C4_NoReembeddingAfterCrash ==
    (idx_pc = "gather" /\ hist[file.file_name].crashed)
    => \A c \in pass.emb_calls :
          Stored(sink, file.file_name, c.paragraph_id[1], c.idx) = 0

\* C5: a record has status processing only while the sweep at worker start
\* has not finished, or while it is the file of the pass in progress: the
\* sweep resets every processing record before the worker claims a file.
C5_SweepBeforeClaim ==
    \A f \in Files :
        (registry[f].present /\ Status(registry, f) = ST_PROCESSING)
        => \/ idx_pc \in {"reset_query", "reset"}
           \/ (InPass /\ file.file_name = f)

\* a crash left the record processing, the process restarted and the sweep
\* has set it incomplete; the worker is about to poll
C5_SweepReset ==
    /\ crashes = 1
    /\ main_pc = "running"
    /\ idx_pc = "poll"
    /\ \E f \in Files : /\ hist[f].crashed
                        /\ registry[f].present
                        /\ Status(registry, f) = ST_INCOMPLETE

Rank(s) ==
    CASE s = ST_NEW -> 0
      [] s = ST_EXTRACTED -> 1
      [] s = ST_PROCESSING -> 2
      [] OTHER -> 3

\* the record of f is the same row before and after the step
SameRow(f) ==
    /\ registry[f].present
    /\ registry'[f].present
    /\ registry'[f].rowid = registry[f].rowid

\* C6: the status of a record only moves forward along
\* "" -> extracted -> processing -> {complete, incomplete, error}, except
\* that an incomplete or error record may be claimed again.
C6_StatusMovesForward ==
    [][\A f \in Files :
          SameRow(f)
          => \/ Status(registry', f) = Status(registry, f)
             \/ Rank(Status(registry', f)) > Rank(Status(registry, f))
             \/ /\ Status(registry', f) = ST_PROCESSING
                /\ (Status(registry, f) = ST_INCOMPLETE
                    \/ IsError(Status(registry, f)))]_vars

ExtractorHolds(queue, f) == \E i \in 1..Len(queue) : queue[i].file_name = f

\* C7: between the mark of a file as processing and the final status of the
\* pass, the extraction worker neither claims the file nor writes its record.
C7_SingleWriterDuringPass ==
    [][(InPass /\ crashes' = crashes /\ extvars' # extvars)
       => /\ registry'[file.file_name] = registry[file.file_name]
          /\ ~ExtractorHolds(ext_queue', file.file_name)]_vars

\* C8: once the status of a record is an error string, no step changes it
\* while the record exists.
C8_ErrorIsTerminal ==
    [][\A f \in Files :
          (SameRow(f) /\ IsError(Status(registry, f)))
          => Status(registry', f) = Status(registry, f)]_vars

\* C9: a record becomes complete only in the final step of a pass in which
\* every paragraph of the pass was embedded and has its hash in the sink;
\* a pass in which an embedding task or the save failed ends incomplete.
C9_CompleteOnlyIfAllWritten ==
    [][\A f \in Files :
          /\ (Status(registry', f) = ST_COMPLETE
              /\ Status(registry, f) # ST_COMPLETE)
             => /\ PassEnds
                /\ file.file_name = f
                /\ ~AnyFailed
                /\ TodoKeys(tasks) \subseteq pass.emb_calls
                /\ TodoKeys(tasks) \subseteq pass.written
                /\ \A k \in TodoKeys(tasks) :
                      \E e \in sink : e.file_name = f /\ e.id = k.paragraph_id
          /\ (PassEnds /\ file.file_name = f
              /\ (AnyFailed \/ SaveRaises(Gathered(tasks), pass.save)))
             => Status(registry', f) = ST_INCOMPLETE]_vars

\* a pass with a failed task ended incomplete and the next pass, in which
\* nothing failed, ended complete
C9_CompleteAfterRetry ==
    /\ idx_pc = "poll"
    /\ \E f \in Files : /\ hist[f].passes = 2
                        /\ registry[f].present
                        /\ Status(registry, f) = ST_COMPLETE
                        /\ \E e \in sink : e.file_name = f

\* C10: a pass in which a call to the sink failed (the lookup, the creation
\* of the index, the write) ends incomplete, and every vector the sink held
\* before the pass is still there.
C10_SinkFailureIsIncomplete ==
    [][(PassEnds /\ SinkFailed(pass))
       => /\ Status(registry', file.file_name) = ST_INCOMPLETE
          /\ pass.before \subseteq sink']_vars

\* embedding requests in flight: every task inside the semaphore awaits
\* one call, and every thread whose await timed out is still in its request
InFlight == Cardinality(Running) + orphans

\* C11: the number of embedding calls in flight never exceeds the
\* concurrency limit.
C11_InFlightWithinLimit == InFlight <= SEMAPHORE_LIMIT

\* C12: a failed embedding call drops the chunks of its own batch only:
\* when every task has returned, each chunk whose call was answered is among
\* the vectors handed to the write step.
C12_OnlyFailedBatchDropped ==
    (idx_pc = "gather" /\ AllDone)
    => pass.embedded \subseteq ChunkKeys(Gathered(tasks))

\* every paragraph of the pass has its id in the set the lookup returned
AllStored ==
    /\ pass.lookup = "ok"
    /\ tasks # <<>>
    /\ \A k \in TodoKeys(tasks) : k.paragraph_id \in pass.processed

\* C13: a pass over a file whose paragraph ids are all in the sink already
\* issues no embedding call, leaves the sink as it was and ends complete.
C13_NothingToDoIsComplete ==
    [][(PassEnds /\ AllStored)
       => /\ pass.emb_calls = {}
          /\ sink' = pass.before
          /\ Status(registry', file.file_name) = ST_COMPLETE]_vars

\* C14: a shutdown that has started reaches the end of its loop over the
\* workers, whatever the workers do, and no step of it ends a thread: a
\* worker that is alive when its join returns stays alive.
C14_ShutdownReturns ==
    /\ (sd_pc.at # "idle") ~> (sd_pc.at = "done")
    /\ [][(sd_pc' # sd_pc /\ crashes' = crashes) => threads' = threads]_vars

\* the shutdown has returned and a worker thread is still running
C14_ReturnedWorkerAlive ==
    /\ sd_pc.at = "done"
    /\ \E w \in WorkerNames : threads[w] = "alive"

\* C15: when the shutdown waits for a worker, the stop_event of every
\* worker is set.
C15_AllSignalledBeforeJoin ==
    sd_pc.at = "join" => \A w \in WorkerNames : stop_event[w]

\* C16: the thread of the extraction worker and of the indexing worker ends
\* only when its stop_event is set: no exception raised while a file is
\* processed ends the loop.
C16_LoopSurvivesFile ==
    [][\A w \in {W_EXTRACTOR, W_PROCESSOR} :
          (threads[w] = "alive" /\ threads'[w] = "exited") => stop_event[w]]_vars

\* the step in which spawn_worker of the watchdog reconciles the registry
Reconciles == main_pc = "boot" /\ main_pc' = "running"

WatcherOrHttpWrites ==
    /\ registry' # registry
    /\ extvars' = extvars
    /\ idxvars' = idxvars
    /\ crashes' = crashes

\* C18: the watcher and the HTTP layer leave every existing record as it
\* is or delete it, and the records they create have status "" and an empty
\* vector_store_id.
C18_WatcherHttpCreateOrDelete ==
    [][WatcherOrHttpWrites
       => \A f \in Files :
             \/ registry'[f] = registry[f]
             \/ registry[f].present /\ ~registry'[f].present
             \/ /\ ~registry[f].present
                /\ registry'[f].present
                /\ Status(registry', f) = ST_NEW
                /\ registry'[f].vector_store_id = ""]_vars

\* the indexing worker is in a pass over a file whose record, marked
\* processing, has been deleted and created again with status ""
C18_RecreatedDuringPass ==
    /\ InPass
    /\ crashes = 0
    /\ file.processing_status = ST_PROCESSING
    /\ registry[file.file_name].present
    /\ registry[file.file_name].rowid > file.created_at
    /\ Status(registry, file.file_name) = ST_NEW

\* C19: create_file_sync for a file_name that has a record returns False
\* and leaves the registry as it was.
C19_DuplicateCreateRejected ==
    [][(resp'.call = "create_file_sync" /\ registry[resp'.file_name].present)
       => (~resp'.ok /\ registry' = registry)]_vars

\* a create for the file_name of a record that has a status and a
\* vector_store_id has returned False
C19_DuplicateRefused ==
    /\ resp.call = "create_file_sync"
    /\ ~resp.ok
    /\ registry[resp.file_name].present
    /\ Status(registry, resp.file_name) = ST_COMPLETE
    /\ registry[resp.file_name].vector_store_id # ""

\* entries of the Redis sink for chunk idx of paragraph id of file f
RedisEntries(snk, f, id, idx) ==
    Cardinality({e \in snk : e.file_name = f /\ e.id = id /\ e.idx = idx})

\* rows of a Milvus collection for chunk idx of paragraph par_id
MilvusRows(col, par_id, idx) ==
    Cardinality({r \in col : r.par_id = par_id /\ r.idx = idx})

\* C20: when the vectors a pass has gathered are written to the sink twice,
\* the sink holds exactly one entry per (paragraph id, chunk index) - in
\* Redis and in Milvus.
C20_SecondWriteChangesNothing ==
    (idx_pc = "gather" /\ AllDone /\ Gathered(tasks) # <<>>)
    => LET p_vecs == Gathered(tasks)
           redis2 == add_vectors(add_vectors(sink, file.file_name, p_vecs),
                                 file.file_name, p_vecs)
           milvus2 == milvus_insert(milvus_insert({}, p_vecs), p_vecs)
       IN  \A k \in ChunkKeys(p_vecs) :
              /\ RedisEntries(redis2, file.file_name, k.paragraph_id, k.idx) = 1
              /\ MilvusRows(milvus2, k.paragraph_id, k.idx) = 1

\* the chunks of a text put together again, line by line
Rejoined(text) == Flatten(chunkify_text(text, MIN_TOKENS, MAX_TOKENS))

\* C21: for every paragraph of every paragraph file, the chunks of
\* chunkify_text concatenated in order are the text (every line of the
\* catalogue is non-blank, so no line is whitespace at a split point), and a
\* text below max_tokens is one chunk equal to the text.
C21_ChunksReconstructText ==
    \A f \in Files : \A i \in 1..Len(jsonl[f]) :
        /\ Rejoined(jsonl[f][i]) = jsonl[f][i]
        /\ count_tokens(jsonl[f][i]) < MAX_TOKENS
           => chunkify_text(jsonl[f][i], MIN_TOKENS, MAX_TOKENS) = <<jsonl[f][i]>>

\* the paragraphs of the pass, with the ids the pass gave them
PassParagraphs == Flatten([i \in 1..Len(tasks) |-> tasks[i].paragraphs])

\* C22: the paragraph id is a function of the text: two paragraphs of a pass
\* with the same text have the same id, and a vector an earlier pass stored
\* for the same text of the same file has the id this pass gives the text.
C22_IdIsFunctionOfText ==
    tasks # <<>>
    => /\ \A i, j \in 1..Len(PassParagraphs) :
             PassParagraphs[i].paragraph_text = PassParagraphs[j].paragraph_text
             => PassParagraphs[i].paragraph_id = PassParagraphs[j].paragraph_id
       /\ \A i \in 1..Len(PassParagraphs) : \A e \in sink :
             (e.file_name = file.file_name
              /\ e.id[1] = generate_content_hash(PassParagraphs[i].paragraph_text))
             => e.id = PassParagraphs[i].paragraph_id

\* C23: when the persisted status of a record is complete, the sink holds a
\* vector for every chunk of every paragraph of the file's paragraph file.
C23_CompleteHasEveryChunk ==
    \A f \in Files :
        (registry[f].present /\ Status(registry, f) = ST_COMPLETE)
        => \A i \in 1..Len(jsonl[f]) :
              \A j \in 0..(NumChunks(jsonl[f][i]) - 1) :
                 Stored(sink, f, generate_content_hash(jsonl[f][i]), j) >= 1

\* the indexing worker is in its loop and not inside process_single_file:
\* it is about to call get_files_to_process or is in stop_event.wait(1)
BetweenPasses == idx_pc = "poll"

\* C24: whenever the indexing worker is between passes, no record has the
\* persisted status processing.
C24_NoProcessingBetweenPasses ==
    BetweenPasses
    => \A f \in Files :
          registry[f].present => Status(registry, f) # ST_PROCESSING

\* a pass has ended and the worker is polling again
C24_PolledAfterPass ==
    /\ BetweenPasses
    /\ \E f \in Files :
          /\ hist[f].passes >= 1
          /\ registry[f].present
          /\ Status(registry, f) \in {ST_COMPLETE, ST_INCOMPLETE}

\* the record under the file_name of the pass is not the one the worker
\* read: it was deleted and created again after the poll
RecordReplaced ==
    /\ registry[file.file_name].present
    /\ registry[file.file_name].rowid > file.created_at

\* C25: when the record was deleted and created again during the pass and
\* the new record still has status "", the final status write of the pass
\* leaves the new record as it is.
C25_FinalWriteSparesNewRecord ==
    [][(PassEnds /\ RecordReplaced /\ Status(registry, file.file_name) = ST_NEW)
       => registry'[file.file_name] = registry[file.file_name]]_vars

\* a step of the extraction worker that writes the registry
ExtractorWrites ==
    /\ ext_pc \in {"extract", "persist"}
    /\ extvars' # extvars
    /\ crashes' = crashes
    /\ registry' # registry

\* C26: the extraction worker writes only records whose status is "", and the
\* status it writes is extracted or the extraction error string.
C26_ExtractorOnlyTouchesNew ==
    [][ExtractorWrites
       => \A f \in Files :
             registry'[f] # registry[f]
             => /\ Status(registry, f) = ST_NEW
                /\ Status(registry', f) \in {ST_EXTRACTED, ERR_EXTRACT}]_vars

\* a step of the pass that reads or writes the sink or issues an embedding
\* call
PassCallStep ==
    /\ idx_pc \in {"lookup", "gather"}
    /\ crashes' = crashes
    /\ \/ pass'.lookup # pass.lookup
       \/ pass'.emb_calls # pass.emb_calls
       \/ pass'.save # pass.save
       \/ sink' # sink

\* the record of the pass is persisted as processing, or as incomplete by a
\* failure handler of this same pass
MarkedProcessing ==
    /\ registry[file.file_name].present
    /\ \/ Status(registry, file.file_name) = ST_PROCESSING
       \/ /\ Status(registry, file.file_name) = ST_INCOMPLETE
          /\ file.processing_status = ST_INCOMPLETE
          /\ AnyFailed

C28_EmbeddingsFollowIndex ==
    /\ \A i \in 1..Len(batch.ret) :
          \E d \in 1..Len(batch.data) :
             /\ batch.data[d].index = i - 1
             /\ batch.data[d].embedding = batch.ret[i].embedding
    /\ \A e \in batch.written :
          \E d \in 1..Len(batch.data) :
             /\ batch.data[d].index = e.pos - 1
             /\ batch.data[d].embedding = e.embedding
    /\ (batch.pc \in {"done", "saved"} /\ Len(batch.data) # Len(batch.p_vecs))
       => (batch.ret = <<>> /\ batch.written = {})

\* a batch of chunks with different texts, answered out of order, has been
\* saved
C28_SavedOutOfOrder ==
    /\ batch.pc = "saved"
    /\ batch.written # {}
    /\ Len(batch.p_vecs) >= 2
    /\ batch.p_vecs[1].text # batch.p_vecs[2].text
    /\ batch.data[1].index # 0

\* the startup scan of this run of the process is over
AfterScan == main_pc \in {"scanned", "running"}

\* C29: a file with its metadata that is in the directory after the startup
\* scan eventually has a record with status "" (unless it is removed again),
\* and a record whose file is gone after the startup scan is eventually
\* removed (unless the file comes back).
C29_WatcherCatchesUp ==
    \A f \in Files :
        /\ (AfterScan /\ disk[f] = "meta" /\ ~registry[f].present)
           ~> \/ registry[f].present /\ Status(registry, f) = ST_NEW
              \/ disk[f] # "meta"
        /\ (AfterScan /\ disk[f] = "none" /\ registry[f].present)
           ~> (~registry[f].present \/ disk[f] # "none")

\* C30: whenever the persisted status of a record is extracted, the
\* paragraph file of the file is on disk and holds every paragraph the
\* extractor returned.
C30_ExtractedHasParagraphFile ==
    \A f \in Files :
        (registry[f].present /\ Status(registry, f) = ST_EXTRACTED)
        => (jsonl[f] # <<>> /\ jsonl[f] = bytes[f])

\* the process has crashed and been restarted, and the record is extracted
\* with its paragraph file written
C30_ExtractedAfterCrash ==
    /\ crashes = 1
    /\ \E f \in Files :
          /\ registry[f].present
          /\ Status(registry, f) = ST_EXTRACTED
          /\ jsonl[f] = bytes[f]

\* a step of the extraction worker or of the indexing worker
WorkerStep ==
    /\ crashes' = crashes
    /\ main_pc' = main_pc
    /\ extvars' # extvars \/ idxvars' # idxvars

\* C31: no step of a worker creates a record: when the record a worker
\* writes to has been deleted, the registry stays without it.
C31_WorkerWriteCreatesNoRecord ==
    [][WorkerStep
       => \A f \in Files : ~registry[f].present => registry'[f] = registry[f]]_vars

\* the indexing worker is about to persist the final status of a pass over
\* a file whose record is gone
C31_FinalWriteWithoutRecord ==
    /\ idx_pc = "final"
    /\ crashes = 0
    /\ file.processing_status = ST_PROCESSING
    /\ ~registry[file.file_name].present

\* a worker begins a polling iteration although its stop signal is set
PollsAfterStop ==
    \/ stop_event[W_EXTRACTOR] /\ ext_pc = "poll" /\ ext_pc' = "extract"
    \/ stop_event[W_PROCESSOR] /\ idx_pc = "poll" /\ idx_pc' = "mark"

\* C32: a worker whose stop signal is set eventually leaves its loop, and
\* begins no polling iteration after the signal, whatever the embedding
\* service and the sink answer.
C32_StoppedWorkerExits ==
    /\ \A w \in WorkerNames : stop_event[w] ~> (threads[w] = "exited")
    /\ [][~PollsAfterStop]_vars

\* every worker has been signalled and has left its loop, the indexing
\* worker after it finished a pass
C32_AllExitedAfterPass ==
    /\ \A w \in WorkerNames : stop_event[w] /\ threads[w] = "exited"
    /\ idx_pc = "exited"
    /\ \E f \in Files : hist[f].passes >= 1

\* C33: no text handed to the embedding service for a chunk of a non-empty
\* paragraph is the empty string.
C33_NoEmptyChunkSent ==
    (batch.pc = "sent" /\ batch.paragraph # <<>>)
    => \A i \in 1..Len(batch.data) : batch.data[i] # <<>>

\* C34: the index of a file is created only by a save that has vectors and
\* finds no index, with the dimension of the first embedding of that save;
\* the first save that Redis answers creates it; a save that finds the index
\* leaves it as it is and does not fail.
C34_IndexCreatedOnceLazily ==
    [][\A f \in Files : \A p_vecs \in VectorLists : \A outcome \in SaveOutcomes :
          SaveVectors(f, p_vecs, outcome)
          => /\ resp'.created
                => /\ f \notin redis_index
                   /\ p_vecs # <<>>
                   /\ resp'.dim = Len(p_vecs[1].embedding)
             /\ redis_index' # redis_index => resp'.created
             /\ (f \notin redis_index /\ p_vecs # <<>> /\ outcome = "ok")
                => (resp'.created /\ f \in redis_index')
             /\ (f \in redis_index /\ p_vecs # <<>> /\ outcome = "ok")
                => /\ redis_index' = redis_index
                   /\ ~resp'.created
                   /\ resp'.ok]_vars

\* a save has found the index of its file, written its vectors and created
\* nothing
C34_SavedIntoExistingIndex ==
    /\ resp.call = "save_vectors_to_redis"
    /\ resp.file_name \in redis_index
    /\ resp.ok
    /\ ~resp.created
    /\ \E e \in sink : e.file_name = resp.file_name

====
